---- MODULE Spec2Model ----
(***************************************************************************)
(* State-machine model of the SMART device session orchestrator            *)
(* (kasa/smart/smartdevice.py) and of the child pairing module             *)
(* (kasa/smart/modules/childsetup.py).                                     *)
(*                                                                         *)
(* One root device is driven by one logical caller.  Every network round   *)
(* trip (await self.protocol.query(...)) is a step of its own: the reply   *)
(* (a response map, or a raised transport failure) is chosen by the        *)
(* environment.                                                            *)
(***************************************************************************)
EXTENDS Integers, Sequences, FiniteSets, TLC

----------------------------------------------------------------------------
(* Bounds of the model *)

\* time.time() returns a value in 1..MaxTime, and never a smaller one than before
MaxTime == 2
\* the caller makes at most MaxCalls calls of update(), pair() and unpair()
MaxCalls == 3
\* at most MaxFaults faults happen in a run: a request that raises, an
\* error code in a response, a post-update hook that raises
MaxFaults == 2
\* pair(timeout=...) is called with a timeout of 0..MaxTimeout half-second ticks
MaxTimeout == 2

----------------------------------------------------------------------------
(* Values *)

\* Python's None for a float | None timestamp
None == -1
\* a key that a dict does not hold
Absent == -1

\* SmartErrorCode.INTERNAL_QUERY_ERROR, and an error code reported by the device
INTERNAL_QUERY_ERROR == -100001
DEVICE_ERROR == -1

\* device-type tags are strings; "X" in tag is a substring test, so a tag is
\* modelled as its sequence of characters
HUB == <<"H", "U", "B">>
PLUG == <<"P", "L", "U", "G">>
SWITCH == <<"S", "W", "I", "T", "C", "H">>
SENSOR == <<"S", "E", "N", "S", "O", "R">>
ENERGY == <<"E", "N", "E", "R", "G", "Y">>

\* Python's  sub in s  for strings
Contains(sub, s) ==
    \E i \in 0..(Len(s) - Len(sub)) :
        \A j \in 1..Len(sub) : s[i + j] = sub[j]

\* the raw info record (self._info): the type tag, and the optional keys
\* device_on (0 = False, 1 = True), on_time (seconds) and brightness, Absent
\* when the dict does not hold the key (or holds null)
NoInfo ==
    [type |-> <<>>, device_on |-> Absent, on_time |-> Absent,
     brightness |-> Absent]

\* self._info.get(key); the key None is held by no info
InfoGet(i, key) ==
    CASE key = "device_on" -> i.device_on
      [] key = "on_time" -> i.on_time
      [] key = "brightness" -> i.brightness
      [] OTHER -> Absent

\* a value of a response map / of self._last_update, per method name:
\* absent, a SmartErrorCode, or a payload
AbsentVal == [tag |-> "absent", v |-> 0, info |-> NoInfo, list |-> <<>>]
ErrVal(code) == [tag |-> "error", v |-> code, info |-> NoInfo, list |-> <<>>]
OkVal(n) == [tag |-> "ok", v |-> n, info |-> NoInfo, list |-> <<>>]
OkInfo(i) == [tag |-> "ok", v |-> 0, info |-> i, list |-> <<>>]
OkList(l) == [tag |-> "ok", v |-> 0, info |-> NoInfo, list |-> l]

\* method names
Keys == {"component_nego", "get_device_info", "get_connect_cloud_state",
         "get_child_device_list", "get_child_device_component_list",
         "get_latest_fw", "get_energy_usage",
         "get_support_child_device_category"}

EmptyDict == [k \in Keys |-> AbsentVal]

\* an update that keeps the value held where there is one
DictUpdate_keepOld(d, other) ==
    [k \in Keys |-> IF d[k].tag # "absent" THEN d[k] ELSE other[k]]

\* dict.update(other): every key of other replaces the value held
DictUpdate(d, other) ==
    [k \in Keys |-> IF other[k].tag # "absent" THEN other[k] ELSE d[k]]

\* the keys a dict holds
DictKeys(d) == {k \in Keys : d[k].tag # "absent"}

\* the set of elements of a sequence
Range(s) == {s[i] : i \in 1..Len(s)}

\* the subsequence of s of the elements in S
RECURSIVE Filter(_, _)
Filter(s, S) ==
    IF s = <<>> THEN <<>>
    ELSE IF Head(s) \in S THEN <<Head(s)>> \o Filter(Tail(s), S)
         ELSE Filter(Tail(s), S)

----------------------------------------------------------------------------
(* Device classifier *)

\* a classifier that tests the SWITCH tag before the dimmer_calibration and
\* brightness components
Classify_switchFirst(comps, device_type_tag) ==
    IF Contains(HUB, device_type_tag) THEN "Hub"
    ELSE IF Contains(PLUG, device_type_tag)
         THEN (IF "child_device" \in comps THEN "Strip" ELSE "Plug")
    ELSE IF "light_strip" \in comps THEN "LightStrip"
    ELSE IF Contains(SWITCH, device_type_tag) THEN "WallSwitch"
    ELSE IF "dimmer_calibration" \in comps THEN "Dimmer"
    ELSE IF "brightness" \in comps THEN "Bulb"
    ELSE IF Contains(SENSOR, device_type_tag) THEN "Sensor"
    ELSE IF Contains(ENERGY, device_type_tag) THEN "Thermostat"
    ELSE "Plug"

Classify(comps, device_type_tag) ==
    IF Contains(HUB, device_type_tag) THEN "Hub"
    ELSE IF Contains(PLUG, device_type_tag)
         THEN (IF "child_device" \in comps THEN "Strip" ELSE "Plug")
    ELSE IF "light_strip" \in comps THEN "LightStrip"
    ELSE IF Contains(SWITCH, device_type_tag) /\ "child_device" \in comps
         THEN "WallSwitch"
    ELSE IF "dimmer_calibration" \in comps THEN "Dimmer"
    ELSE IF "brightness" \in comps THEN "Bulb"
    ELSE IF Contains(SWITCH, device_type_tag) THEN "WallSwitch"
    ELSE IF Contains(SENSOR, device_type_tag) THEN "Sensor"
    ELSE IF Contains(ENERGY, device_type_tag) THEN "Thermostat"
    ELSE "Plug"

----------------------------------------------------------------------------
(* Module registry *)

\* MINIMUM_UPDATE_INTERVAL_SECS of the firmware module, in ticks of time.time()
FirmwareInterval == 1

\* MINIMUM_UPDATE_INTERVAL_SECS of the cloud module
CloudInterval == 2

\* SmartModule.REGISTERED_MODULES, in registration order: the class name, its
\* REQUIRED_COMPONENT, its REQUIRED_KEY_ON_PARENT ("None" when it has none),
\* the keys of its query() and its MINIMUM_UPDATE_INTERVAL_SECS
REGISTERED_MODULES ==
    << [name |-> "DeviceModule", REQUIRED_COMPONENT |-> "device",
        REQUIRED_KEY_ON_PARENT |-> "None",
        query |-> <<"get_device_info">>, MINIMUM_UPDATE_INTERVAL_SECS |-> 0],
       [name |-> "ChildDevice", REQUIRED_COMPONENT |-> "child_device",
        REQUIRED_KEY_ON_PARENT |-> "None",
        query |-> <<"get_child_device_list">>,
        MINIMUM_UPDATE_INTERVAL_SECS |-> 0],
       [name |-> "Cloud", REQUIRED_COMPONENT |-> "cloud_connect",
        REQUIRED_KEY_ON_PARENT |-> "None",
        query |-> <<"get_connect_cloud_state">>,
        MINIMUM_UPDATE_INTERVAL_SECS |-> CloudInterval],
       [name |-> "Firmware", REQUIRED_COMPONENT |-> "firmware",
        REQUIRED_KEY_ON_PARENT |-> "None",
        query |-> <<"get_latest_fw">>,
        MINIMUM_UPDATE_INTERVAL_SECS |-> FirmwareInterval],
       [name |-> "Energy", REQUIRED_COMPONENT |-> "energy_monitoring",
        REQUIRED_KEY_ON_PARENT |-> "None",
        query |-> <<"get_energy_usage">>, MINIMUM_UPDATE_INTERVAL_SECS |-> 0],
       [name |-> "Brightness", REQUIRED_COMPONENT |-> "brightness",
        REQUIRED_KEY_ON_PARENT |-> "brightness",
        query |-> <<>>, MINIMUM_UPDATE_INTERVAL_SECS |-> 0],
       [name |-> "ChildSetup", REQUIRED_COMPONENT |-> "child_quick_setup",
        REQUIRED_KEY_ON_PARENT |-> "None",
        query |-> <<"get_support_child_device_category">>,
        MINIMUM_UPDATE_INTERVAL_SECS |-> 0] >>

\* the composite module synthesised after the registry pass
Light == [name |-> "Light", REQUIRED_COMPONENT |-> "light",
          REQUIRED_KEY_ON_PARENT |-> "None", query |-> <<>>,
          MINIMUM_UPDATE_INTERVAL_SECS |-> 0]

\* insertion order of a device's module map: registry order, Light last
ModuleOrder ==
    [i \in 1..(Len(REGISTERED_MODULES) + 1) |->
        IF i <= Len(REGISTERED_MODULES) THEN REGISTERED_MODULES[i].name
        ELSE Light.name]

ModNames == Range(ModuleOrder)

Descriptor(m) ==
    IF m = Light.name THEN Light
    ELSE CHOOSE d \in Range(REGISTERED_MODULES) : d.name = m

NON_HUB_PARENT_ONLY_MODULES == {"DeviceModule", "Time", "Firmware", "Cloud"}

FIRST_UPDATE_MODULES == {"DeviceModule", "ChildDevice", "Cloud"}

----------------------------------------------------------------------------
(* The device at the far end, as the environment *)

ChildIds == {"c1", "c2"}

\* the devices under test: the type tag, the components reported, the
\* info record reported and the children paired at first.  A hub has no
\* relay and reports neither device_on nor on_time; a power strip reports
\* both, on_time being 0; a plug has no children
Profiles ==
    { [tag |-> HUB,
       comps |-> {"device", "child_device", "child_quick_setup"},
       children |-> {"c1"},
       info |-> [type |-> HUB, device_on |-> Absent, on_time |-> Absent,
                 brightness |-> Absent]],
      [tag |-> PLUG,
       comps |-> {"device", "child_device", "firmware"},
       children |-> {"c1"},
       info |-> [type |-> PLUG, device_on |-> 1, on_time |-> 0,
                 brightness |-> Absent]],
      [tag |-> PLUG,
       comps |-> {"device", "firmware", "cloud_connect"},
       children |-> {},
       info |-> [type |-> PLUG, device_on |-> 1, on_time |-> 0,
                 brightness |-> Absent]] }

\* the components every child reports
ChildComponents == {"device", "energy_monitoring"}

\* the info records the device may report for a child: c1 has a relay that
\* is on or off, and reports on_time; c2 is a sensor and reports neither key
ChildInfos(c) ==
    IF c = "c1"
    THEN { [type |-> PLUG, device_on |-> 1, on_time |-> 0,
            brightness |-> Absent],
           [type |-> PLUG, device_on |-> 0, on_time |-> 0,
            brightness |-> Absent] }
    ELSE { [type |-> SENSOR, device_on |-> Absent, on_time |-> Absent,
            brightness |-> Absent] }

\* the order in which the device lists its children
ChildOrder == <<"c1", "c2">>

\* the ids of a set of children, as the device lists them
SortedIds(S) == Filter(ChildOrder, S)

\* the child_device_list payloads the device may return for the children S
ChildLists(S) ==
    { [i \in 1..Cardinality(S) |->
          [device_id |-> SortedIds(S)[i], info |-> f[SortedIds(S)[i]]]] :
      f \in {g \in [S -> UNION {ChildInfos(c) : c \in ChildIds}] :
                 \A c \in S : g[c] \in ChildInfos(c)} }

----------------------------------------------------------------------------
VARIABLES
    \* the environment: the device at the far end, the wall clock, and the
    \* calls and faults so far
    tag, devComponents, devInfo, devChildren, clock, calls, faults,
    \* the frame of a second call of update() on the same device, suspended
    \* at an await while the operation in progress runs (idle: no such call)
    suspended,
    \* SmartDevice fields
    credentials, credentials_hash, last_update_time, components, info,
    last_update, modules, modLast, features, children, device_type,
    \* the operation in progress: its position and its locals
    pc, first_update, update_time, update_children, req, module_queries,
    responses, idx, batch_failed, outcome, result,
    \* pair(): timeout and elapsed time in half-second ticks, what was found
    timeout, elapsed, discovered,
    \* observation: requests issued and hooks invoked by the operation in
    \* progress, the modules whose hook has raised so far, and per module the
    \* time of the last batch that included it
    sent, hookLog, evicted, lastIncluded

histVars == <<evicted, lastIncluded>>

envVars == <<tag, devComponents, devInfo, devChildren, clock, calls, faults,
            suspended>>
farVars == <<tag, devComponents, devInfo, devChildren, clock, calls,
            suspended>>
devVars == <<last_update_time, components, info, last_update, modules,
             modLast, features, children, device_type>>
credVars == <<credentials, credentials_hash>>
callVars == <<first_update, update_time, update_children, req,
              module_queries, responses, idx, batch_failed>>
pairVars == <<timeout, elapsed, discovered>>
vars == <<envVars, devVars, credVars, pc, callVars, outcome, result,
          pairVars, sent, hookLog, histVars>>

NoChildren == [c \in {} |-> 0]

\* the frame of a call that has not been made
IdleFrame ==
    [pc |-> "idle", first_update |-> FALSE, update_time |-> None,
     update_children |-> FALSE, req |-> <<>>, module_queries |-> {},
     responses |-> EmptyDict, idx |-> 0, batch_failed |-> FALSE,
     outcome |-> "none", result |-> AbsentVal, sent |-> <<>>,
     hookLog |-> <<>>]

\* the frame of the operation in progress
ActiveFrame ==
    [pc |-> pc, first_update |-> first_update, update_time |-> update_time,
     update_children |-> update_children, req |-> req,
     module_queries |-> module_queries, responses |-> responses,
     idx |-> idx, batch_failed |-> batch_failed, outcome |-> outcome,
     result |-> result, sent |-> sent, hookLog |-> hookLog]

\* the device after construction, its components, info and the wall clock
\* being as given, with credentials or without
Constructed(c, i, t, cred) ==
    /\ \E p \in Profiles :
          /\ tag = p.tag
          /\ devComponents = p.comps
          /\ devInfo = p.info
          /\ devChildren = p.children
    /\ clock = t
    /\ calls = 0
    /\ faults = 0
    /\ suspended = IdleFrame
    /\ credentials = cred
    /\ credentials_hash = FALSE
    /\ last_update_time = None
    /\ components = c
    /\ info = i
    /\ last_update = EmptyDict
    /\ modules = {}
    /\ modLast = [m \in ModNames |-> None]
    /\ features = {}
    /\ children = NoChildren
    /\ device_type = "Unknown"
    /\ pc = "idle"
    /\ first_update = FALSE
    /\ update_time = None
    /\ update_children = FALSE
    /\ req = <<>>
    /\ module_queries = {}
    /\ responses = EmptyDict
    /\ idx = 0
    /\ batch_failed = FALSE
    /\ outcome = "none"
    /\ result = AbsentVal
    /\ timeout = 0
    /\ elapsed = 0
    /\ discovered = <<>>
    /\ sent = <<>>
    /\ hookLog = <<>>
    /\ evicted = {}
    /\ lastIncluded = [m \in ModNames |-> None]

\* the device constructed without credentials
InitDevice(c, i, t) == Constructed(c, i, t, FALSE)

Init == InitDevice({}, NoInfo, 1)

\* n more faults happen in this step
Fault(n) ==
    /\ faults + n <= MaxFaults
    /\ faults' = faults + n

\* the faults of a reply: one if it raised, else one per error code held
ReplyFaults(r) ==
    IF r.raised THEN 1
    ELSE Cardinality({k \in Keys : r.resp[k].tag = "error"})

\* a request issued to the transport: its method names in order, and the
\* child ids it names (the children of a pairing request's payload, the
\* child a request of a child's update is addressed to, or for a scan poll
\* the device categories it is scoped to)
Request(keys, ids) == [keys |-> keys, ids |-> ids]

\* an operation ends by raising
Raise(what) ==
    /\ pc' = "done"
    /\ outcome' = what

----------------------------------------------------------------------------
(* Helpers of SmartDevice *)

\* _try_get_response finds a response: the key is held and its value is no
\* SmartErrorCode
Found(d, request) == d[request].tag = "ok"

\* a test that holds of every update()
IsFirstUpdate_always(lut) == TRUE

\* first_update of update(): the device has no time of a last update
IsFirstUpdate(lut) == lut = None

\* a gate that looks at the components only
InitializesChildren_always(comps, ch) == "child_device" \in comps

\* the gate of _initialize_children in _negotiate
InitializesChildren(comps, ch) ==
    "child_device" \in comps /\ DOMAIN ch = {}

\* a credentials check that passes a device without credentials
NoCredentials_hashGiven == ~credentials /\ credentials_hash

\* the credentials check of update()
NoCredentials == ~credentials /\ ~credentials_hash

\* a loader that looks at the components only
LoadModules_componentOnly(comps, sys_info, under_non_hub, unsupported) ==
    LET kept == { d.name : d \in
                    { d \in Range(REGISTERED_MODULES) :
                        /\ ~(under_non_hub
                             /\ d.name \in NON_HUB_PARENT_ONLY_MODULES)
                        /\ d.REQUIRED_COMPONENT \in comps
                        /\ d.name \notin unsupported } }
    IN kept \cup (IF kept \cap {"Brightness", "Color", "ColorTemperature"} # {}
                  THEN {Light.name} ELSE {})

\* _initialize_modules: the modules instantiated and kept for a device with
\* the given components and info; under_non_hub is self._parent and
\* self._parent.device_type != Hub; unsupported are the modules whose
\* _check_supported() probe fails
LoadModules(comps, sys_info, under_non_hub, unsupported) ==
    LET kept == { d.name : d \in
                    { d \in Range(REGISTERED_MODULES) :
                        /\ ~(under_non_hub
                             /\ d.name \in NON_HUB_PARENT_ONLY_MODULES)
                        /\ \/ d.REQUIRED_COMPONENT \in comps
                           \/ InfoGet(sys_info, d.REQUIRED_KEY_ON_PARENT)
                                  # None
                        /\ d.name \notin unsupported } }
    IN kept \cup (IF kept \cap {"Brightness", "Color", "ColorTemperature"} # {}
                  THEN {Light.name} ELSE {})

\* the interval test of _modular_update;  not x  holds of None and of 0
Due(interval, last, t) ==
    \/ interval = 0
    \/ last = None \/ last = 0
    \/ (t - last) >= interval

\* mq: the active modules with a non-empty query, in module-map order
QueryingModules(mods) ==
    Filter(ModuleOrder, {m \in mods : Descriptor(m).query # <<>>})

\* no module is exempt
Bootstrapped_none(mods, first) == {}

\* the first-update modules that are marked updated without being queried
Bootstrapped(mods, first) ==
    {m \in Range(QueryingModules(mods)) : first /\ m \in FIRST_UPDATE_MODULES}

\* module_queries: the modules whose query goes into the batch
ModuleQueries(mods, last, first, t) ==
    {m \in Range(QueryingModules(mods)) \ Bootstrapped(mods, first) :
        Due(Descriptor(m).MINIMUM_UPDATE_INTERVAL_SECS, last[m], t)}

\* req: the keys of the batch, in insertion order
RECURSIVE RequestKeys(_, _)
RequestKeys(order, included) ==
    IF order = <<>> THEN <<>>
    ELSE LET rest == RequestKeys(Tail(order), included)
             q == IF Head(order) \in included
                  THEN Descriptor(Head(order)).query ELSE <<>>
         IN q \o Filter(rest, Range(rest) \ Range(q))

\* the elements of s up to and including the first one in S
RECURSIVE UpToFirst(_, _)
UpToFirst(s, S) ==
    IF s = <<>> THEN <<>>
    ELSE IF Head(s) \in S THEN <<Head(s)>>
         ELSE <<Head(s)>> \o UpToFirst(Tail(s), S)

\* a sweep that the first raising hook aborts
SweepInvoked_abort(mods, raising) == UpToFirst(Filter(ModuleOrder, mods), raising)

\* a sweep that removes no module
SweepKept_all(mods, raising) == mods

\* the modules whose post-update hook a sweep invokes, in order, when the
\* hooks of the modules in raising raise
SweepInvoked(mods, raising) == Filter(ModuleOrder, mods)

\* the modules left after the sweep
SweepKept(mods, raising) == mods \ raising

\* the features a module contributes
ModuleFeatures(m) == IF m = "ChildSetup" THEN {"pair"} ELSE {m}

\* a write-back that writes nothing
WriteBack_none(last, queried, t) == last

\* the last-update times after _modular_update has written update_time to
\* the modules that had queries made
WriteBack(last, queried, t) ==
    [m \in ModNames |-> IF m \in queried THEN t ELSE last[m]]

\* a gate that looks at the flag only
UpdatesChildren_flagOnly(uc, dtype) == uc

\* the gate of the children's update in update()
UpdatesChildren(uc, dtype) == uc \/ dtype # "Hub"

\* a gate on the truthiness of on_time
HasOnTime_truthy(i) == i.on_time # Absent /\ i.on_time # 0

\* the on_since feature is added when the key on_time is in the info
HasOnTime(i) == i.on_time # Absent

\* _initialize_features of one device: the intrinsic features by key
\* presence, then the features of every active module
DeviceFeatures(i, mods) ==
    {"device_id"}
    \cup (IF i.device_on # Absent THEN {"state"} ELSE {})
    \cup (IF HasOnTime(i) THEN {"on_since"} ELSE {})
    \cup UNION {ModuleFeatures(m) : m \in mods}

\* SmartChildDevice.create: the child built from its info and components
CreateChild(child_info, parent_type) ==
    [info |-> child_info,
     modules |-> LoadModules(ChildComponents, child_info, parent_type # "Hub",
                            {}),
     features |-> {}]

\* the requests of the children's _update(), in child-map order
RECURSIVE ChildRequests(_, _)
ChildRequests(order, ch) ==
    IF order = <<>> THEN <<>>
    ELSE LET keys == RequestKeys(ModuleOrder,
                                 Range(QueryingModules(ch[Head(order)].modules)))
         IN (IF keys # <<>> THEN <<Request(keys, {Head(order)})>> ELSE <<>>)
            \o ChildRequests(Tail(order), ch)

----------------------------------------------------------------------------
(* Replies of the transport *)

\* protocol.query raised
Raised == [raised |-> TRUE, resp |-> EmptyDict]
Reply(d) == [raised |-> FALSE, resp |-> d]

\* the methods whose answer may be an error code reported by the device
ErrorCodeKeys == {"component_nego", "get_device_info", "get_child_device_list"}

\* what the device may answer for one method; errs is whether a response map
\* may hold error codes
Answers(k, errs) ==
    (IF k = "get_device_info" THEN {OkInfo(devInfo)}
     ELSE IF k = "get_child_device_list"
     THEN {OkList(l) : l \in ChildLists(devChildren)}
     ELSE {OkVal(1)})
    \cup (IF errs /\ k \in ErrorCodeKeys THEN {ErrVal(DEVICE_ERROR)} ELSE {})

\* the response maps with a value for exactly the keys ks
RECURSIVE Responses(_, _)
Responses(ks, errs) ==
    IF ks = {} THEN {EmptyDict}
    ELSE LET k == CHOOSE x \in ks : TRUE
         IN {[d EXCEPT ![k] = a] :
                d \in Responses(ks \ {k}, errs), a \in Answers(k, errs)}

\* the replies to a request of the keys ks: a transport failure, or a
\* response map with a value for exactly the keys submitted
Replies(ks, errs) == {Raised} \cup {Reply(d) : d \in Responses(ks, errs)}

InitialQuery == <<"component_nego", "get_device_info", "get_connect_cloud_state">>
ChildInfoQuery == <<"get_child_device_component_list", "get_child_device_list">>

----------------------------------------------------------------------------
(* update() *)

\* the caller configures credentials on the device config
SetCredentials ==
    /\ pc = "idle"
    /\ ~credentials
    /\ credentials' = TRUE
    /\ UNCHANGED <<envVars, devVars, credentials_hash, pc, callVars, outcome,
                   result, pairVars, sent, hookLog, histVars>>

\* a timestamp written only when update() is about to return
StampAtCall_deferred(lut, now) == lut

\* self._last_update_time = now: the timestamp update() writes before its
\* first await
StampAtCall(lut, now) == now

\* update(update_children) is called at time t: the credentials check, the
\* first-update decision and the timestamp
UpdateCall(uc, t) ==
    /\ pc = "idle"
    /\ calls < MaxCalls
    /\ calls' = calls + 1
    /\ t >= clock
    /\ clock' = t
    /\ IF NoCredentials
       THEN /\ Raise("AuthenticationError")
            /\ UNCHANGED <<devVars, callVars>>
       ELSE /\ first_update' = IsFirstUpdate(last_update_time)
            /\ update_time' = t
            /\ last_update_time' = StampAtCall(last_update_time, t)
            /\ update_children' = uc
            /\ outcome' = "running"
            /\ pc' = IF IsFirstUpdate(last_update_time) THEN "negotiate"
                     ELSE "batch"
            /\ UNCHANGED <<components, info, last_update, modules, modLast,
                           features, children, device_type, req,
                           module_queries, responses, idx, batch_failed>>
    /\ UNCHANGED <<tag, suspended, devComponents, devInfo, devChildren, faults,
                   credVars, result, pairVars, sent, hookLog, histVars>>

\* the operation has returned or raised: the caller takes the outcome and
\* the frame of the call is gone
Return ==
    /\ pc = "done"
    /\ pc' = "idle"
    /\ first_update' = FALSE
    /\ update_time' = None
    /\ update_children' = FALSE
    /\ req' = <<>>
    /\ module_queries' = {}
    /\ responses' = EmptyDict
    /\ idx' = 0
    /\ batch_failed' = FALSE
    /\ outcome' = "none"
    /\ result' = AbsentVal
    /\ timeout' = 0
    /\ elapsed' = 0
    /\ discovered' = <<>>
    /\ sent' = <<>>
    /\ hookLog' = <<>>
    /\ UNCHANGED <<envVars, credVars, devVars, histVars>>

\* _negotiate: the initial query and its reply
Negotiate(r) ==
    /\ pc = "negotiate"
    /\ Fault(ReplyFaults(r))
    /\ sent' = Append(sent, Request(InitialQuery, {}))
    /\ IF r.raised
       THEN /\ Raise("QueryError")
            /\ UNCHANGED <<last_update, info, components>>
       ELSE /\ last_update' = DictUpdate(last_update, r.resp)
            /\ IF ~Found(r.resp, "get_device_info")
               THEN /\ Raise("KasaException")
                    /\ UNCHANGED <<info, components>>
               ELSE /\ info' = r.resp["get_device_info"].info
                    /\ IF ~Found(r.resp, "component_nego")
                       THEN /\ Raise("TypeError")
                            /\ UNCHANGED components
                       ELSE /\ components' = devComponents
                            /\ outcome' = outcome
                            /\ pc' = IF InitializesChildren(devComponents,
                                                            children)
                                     THEN "init_children"
                                     ELSE "init_modules"
    /\ UNCHANGED <<farVars, credVars, last_update_time, modules, modLast,
                   features, children, device_type, callVars, result,
                   pairVars, hookLog, histVars>>

\* _initialize_children: the child info query and its reply, then one child
\* device per listed child
InitializeChildren(r) ==
    /\ pc = "init_children"
    /\ Fault(ReplyFaults(r))
    /\ sent' = Append(sent, Request(ChildInfoQuery, {}))
    /\ IF r.raised
       THEN /\ Raise("QueryError")
            /\ UNCHANGED <<last_update, children, device_type>>
       ELSE /\ last_update' = DictUpdate(last_update, r.resp)
            /\ IF ~Found(last_update', "get_child_device_list")
                  \/ ~Found(last_update', "get_child_device_component_list")
               THEN /\ Raise("TypeError")
                    /\ UNCHANGED <<children, device_type>>
               ELSE LET l == last_update'["get_child_device_list"].list
                        ptype == IF device_type # "Unknown" THEN device_type
                                 ELSE Classify(components, info.type)
                    IN /\ device_type' = IF l = <<>> THEN device_type
                                         ELSE ptype
                       /\ children' =
                            [c \in {l[i].device_id : i \in 1..Len(l)} |->
                               CreateChild(
                                 (CHOOSE e \in Range(l) : e.device_id = c).info,
                                 ptype)]
                       /\ outcome' = outcome
                       /\ pc' = "init_modules"
    /\ UNCHANGED <<farVars, credVars, last_update_time, components, info,
                   modules, modLast, features, callVars, result, pairVars,
                   hookLog, histVars>>

\* _initialize_modules of the root device
InitializeModules(unsupported) ==
    /\ pc = "init_modules"
    /\ LET loaded == LoadModules(components, info, FALSE, unsupported)
       IN /\ modules' = modules \cup loaded
          /\ modLast' = [m \in ModNames |->
                            IF m \in loaded THEN None ELSE modLast[m]]
    /\ pc' = "batch"
    /\ UNCHANGED <<envVars, credVars, last_update_time, components, info,
                   last_update, features, children, device_type, callVars,
                   outcome, result, pairVars, sent, hookLog, histVars>>


\* whether an answered batch may hold error codes
BatchErrorCodes == FALSE

\* _modular_update, up to the reply of the batched request: the batch is
\* built from the modules due, the bootstrap modules of a first update are
\* marked updated, and the request is issued once
ModularQuery(r) ==
    /\ pc = "batch"
    /\ LET mq == ModuleQueries(modules, modLast, first_update, update_time)
           keys == RequestKeys(ModuleOrder, mq)
       IN /\ module_queries' = mq
          /\ req' = keys
          /\ modLast' = [m \in ModNames |->
                            IF m \in Bootstrapped(modules, first_update)
                            THEN update_time ELSE modLast[m]]
          /\ sent' = Append(sent, Request(keys, {}))
          /\ lastIncluded' = [m \in ModNames |->
                                 IF m \in mq THEN update_time
                                 ELSE lastIncluded[m]]
          /\ r \in Replies(Range(keys), BatchErrorCodes)
          /\ Fault(ReplyFaults(r))
          /\ IF r.raised
             THEN /\ batch_failed' = TRUE
                  /\ responses' = EmptyDict
                  /\ idx' = 1
                  /\ pc' = IF keys = <<>> THEN "post_query" ELSE "fallback"
             ELSE /\ batch_failed' = FALSE
                  /\ responses' = r.resp
                  /\ idx' = 0
                  /\ pc' = "post_query"
    /\ UNCHANGED <<farVars, credVars, last_update_time, components, info,
                   last_update, modules, features, children, device_type,
                   first_update, update_time, update_children, outcome,
                   result, pairVars, hookLog, evicted>>

\* a fallback that leaves out the key whose replay failed
FallbackValue_dropped(r, meth) ==
    IF r.raised \/ r.resp[meth].tag = "absent"
    THEN AbsentVal
    ELSE r.resp[meth]

\* the value _handle_modular_update_error records for a key: the value its
\* replay returned, or the sentinel when the replay raised or returned no
\* entry for the key
FallbackValue(r, meth) ==
    IF r.raised \/ r.resp[meth].tag = "absent"
    THEN ErrVal(INTERNAL_QUERY_ERROR)
    ELSE r.resp[meth]

\* a replay that sends the whole batch again
ReplayRequest_whole(meth) == Request(req, {})

\* the request that replays one key of the failed batch
ReplayRequest(meth) == Request(<<meth>>, {})

\* the replies to the replay of one key: a reply to the request, or a
\* response that lacks the key
ReplayReplies(meth) == Replies({meth}, FALSE) \cup {Reply(EmptyDict)}

\* _handle_modular_update_error: the replay of the idx-th key of the batch
Replay(r) ==
    /\ pc = "fallback"
    /\ idx <= Len(req)
    /\ r \in ReplayReplies(req[idx])
    /\ Fault(IF r.raised \/ r.resp[req[idx]].tag # "ok" THEN 1 ELSE 0)
    /\ sent' = Append(sent, ReplayRequest(req[idx]))
    /\ responses' = [responses EXCEPT ![req[idx]] = FallbackValue(r, req[idx])]
    /\ idx' = idx + 1
    /\ pc' = IF idx = Len(req) THEN "post_query" ELSE "fallback"
    /\ UNCHANGED <<farVars, credVars, devVars, first_update, update_time,
                   update_children, req, module_queries, batch_failed,
                   outcome, result, pairVars, hookLog, histVars>>

\* the response _modular_update reads get_device_info from
InfoResp(first, merged, resp) == IF first THEN merged ELSE resp

\* the post-update hook of module m of device d was invoked, and raised or not
HookCall(d, m, raised) == [dev |-> d, mod |-> m, raised |-> raised]

RECURSIVE HookCalls(_, _, _)
HookCalls(d, order, raising) ==
    IF order = <<>> THEN <<>>
    ELSE <<HookCall(d, Head(order), Head(order) \in raising)>>
         \o HookCalls(d, Tail(order), raising)

\* _modular_update, after the response is in: merge, refresh info, run the
\* post-update hooks of the device's own modules, evict the failing ones,
\* write the timestamps of the modules queried
PostQuery(raising) ==
    /\ pc = "post_query"
    /\ raising \subseteq modules
    /\ Fault(Cardinality(raising))
    /\ last_update' = DictUpdate(last_update, responses)
    /\ IF ~Found(InfoResp(first_update, last_update', responses),
                 "get_device_info")
       THEN /\ Raise("KasaException")
            /\ raising = {}
            /\ UNCHANGED <<info, modules, modLast, device_type, hookLog,
                           evicted>>
       ELSE /\ info' = InfoResp(first_update, last_update',
                                responses)["get_device_info"].info
            /\ hookLog' = hookLog \o HookCalls("root",
                                               SweepInvoked(modules, raising),
                                               raising)
            /\ modules' = SweepKept(modules, raising)
            /\ evicted' = evicted \cup {<<"root", m>> : m \in raising}
            /\ modLast' = WriteBack(modLast, module_queries, update_time)
            /\ device_type' = IF update_children \/ device_type # "Unknown"
                              THEN device_type
                              ELSE Classify(components, info'.type)
            /\ outcome' = outcome
            /\ pc' = IF UpdatesChildren(update_children, device_type')
                     THEN "children" ELSE "tail"
    /\ UNCHANGED <<farVars, credVars, last_update_time, components, features,
                   children, callVars, result, pairVars, sent,
                   lastIncluded>>

\* the children's _update(): each child with a query issues one request;
\* k = 0 when all are answered, else the k-th of them raises
ChildrenUpdate(k) ==
    /\ pc = "children"
    /\ LET reqs == ChildRequests(SortedIds(DOMAIN children), children)
       IN /\ k \in 0..Len(reqs)
          /\ Fault(IF k = 0 THEN 0 ELSE 1)
          /\ IF k = 0
             THEN /\ sent' = sent \o reqs
                  /\ pc' = "tail"
                  /\ outcome' = outcome
             ELSE /\ sent' = sent \o SubSeq(reqs, 1, k)
                  /\ Raise("QueryError")
    /\ UNCHANGED <<farVars, credVars, devVars, callVars, result, pairVars,
                   hookLog, histVars>>

\* the enumerated child list update() pushes down: the payload of
\* get_child_device_list in the last-known responses, if one is found
ChildInfoList(lu) ==
    IF Found(lu, "get_child_device_list")
    THEN lu["get_child_device_list"].list ELSE <<>>

\* the listed children that have no child device in the child map
Unmatched(l, ch) == {i \in 1..Len(l) : l[i].device_id \notin DOMAIN ch}

\* _update_internal_state for the first n entries of the list
PushInfo(l, ch, n) ==
    [c \in DOMAIN ch |->
        IF \E i \in 1..n : l[i].device_id = c
        THEN [ch[c] EXCEPT !.info =
                 l[CHOOSE i \in 1..n : l[i].device_id = c
                                       /\ \A j \in (i + 1)..n :
                                            l[j].device_id # c].info]
        ELSE ch[c]]

\* the hooks a child may have raise: pairs of a child and one of its modules
ChildModules(ch) ==
    {cm \in (DOMAIN ch) \X ModNames : cm[2] \in ch[cm[1]].modules}

RECURSIVE ChildHookCalls(_, _, _)
ChildHookCalls(order, ch, raising) ==
    IF order = <<>> THEN <<>>
    ELSE LET mine == {m \in ModNames : <<Head(order), m>> \in raising}
         IN HookCalls(Head(order),
                      SweepInvoked(ch[Head(order)].modules, mine), mine)
            \o ChildHookCalls(Tail(order), ch, raising)

\* the rest of update(): the child info push, the sweep of the children's
\* post-update hooks, and feature initialisation when the device has no
\* features yet
Finish(raising) ==
    /\ pc = "tail"
    /\ raising \subseteq ChildModules(children)
    /\ Fault(Cardinality(raising))
    /\ LET l == ChildInfoList(last_update)
           bad == Unmatched(l, children)
       IN IF bad # {}
          THEN /\ raising = {}
               /\ children' = PushInfo(l, children,
                                       (CHOOSE i \in bad :
                                           \A j \in bad : i <= j) - 1)
               /\ Raise("KeyError")
               /\ UNCHANGED <<features, hookLog, evicted>>
          ELSE LET pushed == PushInfo(l, children, Len(l))
                   swept == [c \in DOMAIN pushed |->
                               [pushed[c] EXCEPT !.modules =
                                  SweepKept(pushed[c].modules,
                                            {m \in ModNames :
                                                <<c, m>> \in raising})]]
               IN /\ hookLog' = hookLog \o
                        ChildHookCalls(SortedIds(DOMAIN children), children,
                                       raising)
                  /\ evicted' = evicted \cup raising
                  /\ IF features = {}
                     THEN /\ features' = DeviceFeatures(info, modules)
                          /\ children' =
                               [c \in DOMAIN swept |->
                                  [swept[c] EXCEPT !.features =
                                     swept[c].features \cup
                                     DeviceFeatures(swept[c].info,
                                                    swept[c].modules)]]
                     ELSE /\ features' = features
                          /\ children' = swept
                  /\ pc' = "done"
                  /\ outcome' = "ok"
    /\ UNCHANGED <<farVars, credVars, last_update_time, components, info,
                   last_update, modules, modLast, device_type, callVars,
                   result, pairVars, sent, lastIncluded>>

----------------------------------------------------------------------------
(* ChildSetup: pair() and unpair() *)

\* SmartDevice.request_renegotiation: the next update() negotiates again
RequestRenegotiation == last_update_time' = None

\* a removal request that names every child
UnpairPayload_all(device_id) == ChildIds

\* a pairing request that names only the first device discovered
AddPayload_first(devices) == IF devices = <<>> THEN {} ELSE {devices[1]}

\* the child ids the payload of unpair(device_id) names
UnpairPayload(device_id) == {device_id}

\* the child ids the payload of add_devices(devices) names
AddPayload(devices) == Range(devices)

\* the child map after unpair() or add_devices(): neither touches it
ChildMapAfterPairing(ch, ids) == ch

\* what a scan may report: nothing yet, or devices that are not yet paired
Detected ==
    {<<>>} \cup {SortedIds(S) : S \in (SUBSET (ChildIds \ devChildren)) \ {{}}}

\* ChildSetup.supported_device_categories: the device_category_list of the
\* module's data
SupportedDeviceCategories == {"subg.trv", "subg.trigger"}

\* a deadline that never passes
WithinDeadline_unbounded(e, T) == TRUE

\* asyncio_timeout(T): what ends at tick e ends before the deadline passes
WithinDeadline(e, T) == e <= T

\* pair(timeout=T) is called, T in half-second ticks
PairCall(T) ==
    /\ pc = "idle"
    /\ "ChildSetup" \in modules
    /\ calls < MaxCalls
    /\ calls' = calls + 1
    /\ timeout' = T
    /\ elapsed' = 0
    /\ discovered' = <<>>
    /\ outcome' = "running"
    /\ pc' = "pair_begin"
    /\ UNCHANGED <<tag, suspended, devComponents, devInfo, devChildren, clock, faults,
                   credVars, devVars, callVars, result, sent, hookLog,
                   histVars>>

\* the begin_scanning_child_device request; the timeout starts to run after it
PairBegin(ok) ==
    /\ pc = "pair_begin"
    /\ sent' = Append(sent, Request(<<"begin_scanning_child_device">>, {}))
    /\ Fault(IF ok THEN 0 ELSE 1)
    /\ IF ok THEN pc' = "pair_sleep" /\ outcome' = outcome
       ELSE Raise("QueryError")
    /\ UNCHANGED <<farVars, credVars, devVars, callVars, result, pairVars,
                   hookLog, histVars>>

\* pair() gives up at the deadline: it returns None
PairTimeout ==
    /\ pc' = "done"
    /\ outcome' = "ok"
    /\ result' = AbsentVal

\* asyncio.sleep(0.5) under the timeout: the sleep ends (wakes), or the
\* deadline passes first; when both fall on the same tick either happens
PairSleep(wakes) ==
    /\ pc = "pair_sleep"
    /\ IF wakes
       THEN /\ WithinDeadline(elapsed + 1, timeout)
            /\ elapsed' = elapsed + 1
            /\ pc' = "pair_poll"
            /\ UNCHANGED <<outcome, result>>
       ELSE /\ elapsed + 1 >= timeout
            /\ PairTimeout
            /\ UNCHANGED elapsed
    /\ UNCHANGED <<envVars, credVars, devVars, callVars, timeout, discovered,
                   sent, hookLog, histVars>>

\* get_detected_devices under the timeout: the poll is issued; it raises, or
\* it is answered after d ticks with the list found, or the deadline passes
\* first (answered is FALSE)
PairPoll(ok, d, found, answered) ==
    /\ pc = "pair_poll"
    /\ sent' = Append(sent, Request(<<"get_scan_child_device_list">>,
                                    SupportedDeviceCategories))
    /\ Fault(IF answered /\ ~ok THEN 1 ELSE 0)
    /\ IF ~answered
       THEN /\ elapsed + d >= timeout
            /\ PairTimeout
            /\ UNCHANGED <<elapsed, discovered>>
       ELSE /\ WithinDeadline(elapsed + d, timeout)
            /\ IF ~ok
               THEN /\ Raise("QueryError")
                    /\ UNCHANGED <<elapsed, discovered, result>>
               ELSE /\ elapsed' = elapsed + d
                    /\ discovered' = found
                    /\ pc' = IF found # <<>> THEN "pair_add" ELSE "pair_sleep"
                    /\ UNCHANGED <<outcome, result>>
    /\ UNCHANGED <<farVars, credVars, devVars, callVars, timeout, hookLog,
                   histVars>>

\* add_devices(discovered): the add_child_device_list request, then the
\* request for renegotiation; its result is the result of pair()
AddDevices(ok) ==
    /\ pc = "pair_add"
    /\ sent' = Append(sent, Request(<<"add_child_device_list">>,
                                    AddPayload(discovered)))
    /\ Fault(IF ok THEN 0 ELSE 1)
    /\ IF ok
       THEN /\ devChildren' = devChildren \cup AddPayload(discovered)
            /\ children' = ChildMapAfterPairing(children, AddPayload(discovered))
            /\ RequestRenegotiation
            /\ result' = OkVal(1)
            /\ outcome' = "ok"
            /\ pc' = "done"
       ELSE /\ Raise("QueryError")
            /\ UNCHANGED <<devChildren, children, last_update_time, result>>
    /\ UNCHANGED <<tag, suspended, devComponents, devInfo, clock, calls, credVars,
                   components, info, last_update, modules, modLast, features,
                   device_type, callVars, pairVars, hookLog, histVars>>

\* unpair(device_id): the remove_child_device_list request, then the request
\* for renegotiation
Unpair(device_id, ok) ==
    /\ pc = "idle"
    /\ "ChildSetup" \in modules
    /\ calls < MaxCalls
    /\ calls' = calls + 1
    /\ sent' = Append(sent, Request(<<"remove_child_device_list">>,
                                    UnpairPayload(device_id)))
    /\ Fault(IF ok THEN 0 ELSE 1)
    /\ IF ok
       THEN /\ devChildren' = devChildren \ UnpairPayload(device_id)
            /\ children' = ChildMapAfterPairing(children,
                                                UnpairPayload(device_id))
            /\ RequestRenegotiation
            /\ result' = OkVal(1)
            /\ outcome' = "ok"
            /\ pc' = "done"
       ELSE /\ Raise("QueryError")
            /\ UNCHANGED <<devChildren, children, last_update_time, result>>
    /\ UNCHANGED <<tag, suspended, devComponents, devInfo, clock, credVars, components,
                   info, last_update, modules, modLast, features, device_type,
                   callVars, pairVars, hookLog, histVars>>

----------------------------------------------------------------------------
UnsupportedChoices == {{}}

\* the batch _modular_update builds in the current state
CurrentBatch ==
    RequestKeys(ModuleOrder,
                ModuleQueries(modules, modLast, first_update, update_time))

\* the steps of update() on a device that has credentials and, when it
\* negotiates, holds children already
CycleNext ==
    \/ \E uc \in BOOLEAN, t \in 1..MaxTime : UpdateCall(uc, t)
    \/ pc = "negotiate"
          /\ \E r \in Replies(Range(InitialQuery), TRUE) : Negotiate(r)
    \/ \E u \in UnsupportedChoices : InitializeModules(u)
    \/ pc = "batch" /\ \E r \in Replies(Range(CurrentBatch), BatchErrorCodes) :
                                 ModularQuery(r)
    \/ pc = "fallback" /\ \E r \in ReplayReplies(req[idx]) : Replay(r)
    \/ pc = "post_query" /\ \E raising \in SUBSET modules : PostQuery(raising)
    \/ pc = "children"
          /\ \E k \in 0..Cardinality(DOMAIN children) : ChildrenUpdate(k)
    \/ pc = "tail"
          /\ \E raising \in SUBSET ChildModules(children) : Finish(raising)
    \/ Return

UpdateNext ==
    \/ SetCredentials
    \/ pc = "init_children"
          /\ \E r \in Replies(Range(ChildInfoQuery), TRUE) :
                InitializeChildren(r)
    \/ CycleNext

PairNext ==
    \/ \E T \in 0..MaxTimeout : PairCall(T)
    \/ \E ok \in BOOLEAN : PairBegin(ok)
    \/ \E wakes \in BOOLEAN : PairSleep(wakes)
    \/ pc = "pair_poll"
          /\ \E ok \in BOOLEAN, d \in 0..1, found \in Detected,
                answered \in BOOLEAN : PairPoll(ok, d, found, answered)
    \/ \E ok \in BOOLEAN : AddDevices(ok)
    \/ \E id \in ChildIds, ok \in BOOLEAN : Unpair(id, ok)

Next == UpdateNext \/ PairNext

\* the device driven by update(), pair() and unpair()
Spec == Init /\ [][Next]_vars

----------------------------------------------------------------------------
(* The hub after its first update() *)

HubProfile == CHOOSE p \in Profiles : p.tag = HUB

\* the hub when its first update(), at time 1 and without a fault, has
\* returned, n being the number of calls counted
NegotiatedHub(n) ==
    \E l \in ChildLists(HubProfile.children) :
       /\ tag = HubProfile.tag
       /\ devComponents = HubProfile.comps
       /\ devInfo = HubProfile.info
       /\ devChildren = HubProfile.children
       /\ clock = 1
       /\ calls = n
       /\ faults = 0
       /\ suspended = IdleFrame
       /\ credentials = TRUE
       /\ credentials_hash = FALSE
       /\ last_update_time = 1
       /\ components = HubProfile.comps
       /\ info = HubProfile.info
       /\ last_update =
             [k \in Keys |->
                IF k = "get_device_info" THEN OkInfo(HubProfile.info)
                ELSE IF k = "get_child_device_list" THEN OkList(l)
                ELSE IF k \in Range(InitialQuery) \cup Range(ChildInfoQuery)
                             \cup {"get_support_child_device_category"}
                     THEN OkVal(1)
                     ELSE AbsentVal]
       /\ modules = LoadModules(HubProfile.comps, HubProfile.info, FALSE, {})
       /\ modLast = [m \in ModNames |->
                       IF m \in modules /\ Descriptor(m).query # <<>>
                       THEN 1 ELSE None]
       /\ features = DeviceFeatures(info, modules)
       /\ children =
             [c \in HubProfile.children |->
                LET made == CreateChild(
                               (CHOOSE x \in Range(l) : x.device_id = c).info,
                               "Hub")
                IN [made EXCEPT !.features =
                       DeviceFeatures(made.info, made.modules)]]
       /\ device_type = "Hub"
       /\ pc = "idle"
       /\ first_update = FALSE
       /\ update_time = None
       /\ update_children = FALSE
       /\ req = <<>>
       /\ module_queries = {}
       /\ responses = EmptyDict
       /\ idx = 0
       /\ batch_failed = FALSE
       /\ outcome = "none"
       /\ result = AbsentVal
       /\ timeout = 0
       /\ elapsed = 0
       /\ discovered = <<>>
       /\ sent = <<>>
       /\ hookLog = <<>>
       /\ evicted = {}
       /\ lastIncluded = [m \in ModNames |->
                            IF m \in modules \ FIRST_UPDATE_MODULES
                               /\ Descriptor(m).query # <<>>
                            THEN 1 ELSE None]

InitPaired == NegotiatedHub(0)

PairedNext == CycleNext \/ PairNext

\* the hub from its first update() on, driven by update(), pair() and
\* unpair()
SpecPaired == InitPaired /\ [][PairedNext]_vars

\* the steps of a call of pair() once it is made: every one of them is an
\* await that the event loop resumes (a reply, an error, the end of a sleep,
\* or the deadline)
PairSteps ==
    \/ \E ok \in BOOLEAN : PairBegin(ok)
    \/ \E wakes \in BOOLEAN : PairSleep(wakes)
    \/ pc = "pair_poll"
          /\ \E ok \in BOOLEAN, d \in 0..1, found \in Detected,
                answered \in BOOLEAN : PairPoll(ok, d, found, answered)
    \/ \E ok \in BOOLEAN : AddDevices(ok)

ScanNext == PairNext \/ Return

\* the hub driven by pair() and unpair() alone, no await of pair() pending
\* for ever
SpecScan == InitPaired /\ [][ScanNext]_vars /\ WF_vars(PairSteps)

----------------------------------------------------------------------------
(* The accessors and the module loader, over arbitrary device data *)

\* the component ids the classifier and the loader look for
AccessorComponents ==
    {"child_device", "light_strip", "dimmer_calibration", "brightness",
     "firmware"}

\* type tags: each keyword alone, a keyword inside a longer tag, two keywords
\* in one tag, and a tag with no keyword
Tags ==
    {HUB, PLUG, SWITCH, SENSOR, ENERGY, <<"K">> \o SWITCH, PLUG \o HUB,
     <<"B", "U", "L", "B">>}

\* the info records a device may hold after negotiation
AccessorInfos ==
    [type : Tags, device_on : {Absent, 0, 1}, on_time : {Absent, 0, 1},
     brightness : {Absent, 1}]

\* the type of self._parent, "None" for a root device
ParentTypes == {"None", "Hub", "Strip"}

\* the sets of modules whose _check_supported() probe fails
ProbeFailures == SUBSET {"Firmware", "Brightness"}

\* an on_since that takes an on_time of 0 for a missing one
OnSince_truthy(i, t) ==
    IF i.device_on = Absent \/ i.device_on = 0
       \/ i.on_time = Absent \/ i.on_time = 0
    THEN AbsentVal
    ELSE OkVal(t - i.on_time)

\* the on_since property; t is self.time
OnSince(i, t) ==
    IF (i.device_on = Absent \/ i.device_on = 0) \/ i.on_time = None
    THEN AbsentVal
    ELSE OkVal(t - i.on_time)

\* a read of the device_type property: the cached type, or else the type
\* classified from the components and the type tag, which is then cached
DeviceTypeGet ==
    /\ pc = "idle"
    /\ device_type' = IF device_type # "Unknown" THEN device_type
                      ELSE Classify(components, info.type)
    /\ pc' = "done"
    /\ outcome' = "ok"
    /\ UNCHANGED <<envVars, credVars, last_update_time, components, info,
                   last_update, modules, modLast, features, children,
                   callVars, result, pairVars, sent, hookLog, histVars>>

\* a read of the on_since property
OnSinceGet ==
    /\ pc = "idle"
    /\ result' = OnSince(info, clock)
    /\ pc' = "done"
    /\ outcome' = "ok"
    /\ UNCHANGED <<envVars, credVars, devVars, callVars, pairVars, sent,
                   hookLog, histVars>>

\* _initialize_modules of a device whose parent is of the given type
InitializeModulesUnder(parent_type, unsupported) ==
    /\ pc = "idle"
    /\ modules' = modules \cup
                     LoadModules(components, info,
                                 parent_type \notin {"None", "Hub"},
                                 unsupported)
    /\ pc' = "done"
    /\ outcome' = "ok"
    /\ UNCHANGED <<envVars, credVars, last_update_time, components, info,
                   last_update, modLast, features, children, device_type,
                   callVars, result, pairVars, sent, hookLog, histVars>>

InitAccessors ==
    \E c \in SUBSET AccessorComponents, i \in AccessorInfos,
       t \in 1..MaxTime : InitDevice(c, i, t)

AccessorNext ==
    \/ DeviceTypeGet
    \/ OnSinceGet
    \/ \E p \in ParentTypes, u \in ProbeFailures :
          InitializeModulesUnder(p, u)

\* one accessor or one module-loading pass, applied to a device holding
\* arbitrary components and info
SpecAccessors == InitAccessors /\ [][AccessorNext]_vars

\* the device driven by update() alone
SpecUpdate == Init /\ [][UpdateNext]_vars

\* where a call of update() awaits a round trip (a query, a replayed request,
\* the probes of module loading, the children's updates), and where no call
\* has been made
SuspensionPoints ==
    {"idle", "negotiate", "init_children", "init_modules", "batch",
     "fallback", "children"}

\* the event loop runs the other call of update(): the operation in progress
\* is at an await (or its call has not been made) and is suspended there, and
\* the suspended call resumes where it was (or may now be made)
Switch ==
    /\ pc \in SuspensionPoints
    /\ suspended # ActiveFrame
    /\ suspended' = ActiveFrame
    /\ pc' = suspended.pc
    /\ first_update' = suspended.first_update
    /\ update_time' = suspended.update_time
    /\ update_children' = suspended.update_children
    /\ req' = suspended.req
    /\ module_queries' = suspended.module_queries
    /\ responses' = suspended.responses
    /\ idx' = suspended.idx
    /\ batch_failed' = suspended.batch_failed
    /\ outcome' = suspended.outcome
    /\ result' = suspended.result
    /\ sent' = suspended.sent
    /\ hookLog' = suspended.hookLog
    /\ UNCHANGED <<tag, devComponents, devInfo, devChildren, clock, calls,
                   faults, credVars, devVars, pairVars, histVars>>

\* the steps of two calls of update() that are made within one tick of the
\* wall clock and whose post-update hooks do not raise
ConcurrentNext ==
    \/ \E uc \in BOOLEAN : UpdateCall(uc, clock)
    \/ pc = "negotiate"
          /\ \E r \in Replies(Range(InitialQuery), TRUE) : Negotiate(r)
    \/ pc = "init_children"
          /\ \E r \in Replies(Range(ChildInfoQuery), TRUE) :
                InitializeChildren(r)
    \/ \E u \in UnsupportedChoices : InitializeModules(u)
    \/ pc = "batch" /\ \E r \in Replies(Range(CurrentBatch), BatchErrorCodes) :
                                 ModularQuery(r)
    \/ pc = "fallback" /\ \E r \in ReplayReplies(req[idx]) : Replay(r)
    \/ pc = "post_query" /\ PostQuery({})
    \/ pc = "children"
          /\ \E k \in 0..Cardinality(DOMAIN children) : ChildrenUpdate(k)
    \/ pc = "tail" /\ Finish({})
    \/ Return
    \/ Switch

\* two calls of update() on the same device, interleaved at their awaits
InitConcurrent == Constructed({}, NoInfo, 1, TRUE)

SpecConcurrent == InitConcurrent /\ [][ConcurrentNext]_vars

----------------------------------------------------------------------------
(* Properties *)

\* the state of a device nothing has been done to
Untouched ==
    /\ last_update_time = None
    /\ components = {}
    /\ info = NoInfo
    /\ last_update = EmptyDict
    /\ modules = {}
    /\ features = {}
    /\ DOMAIN children = {}

\* C1: as long as the device has neither credentials nor a credentials hash,
\* a call of update() ends with AuthenticationError, no request has been
\* issued, and the device is untouched: the timestamp is still None (so the
\* next update() is a first update), and there are no components, modules,
\* features or children
C1_NoCredentialsFailsFirst ==
    (~credentials /\ ~credentials_hash) =>
        /\ pc \in {"idle", "done"}
        /\ pc = "done" => outcome = "AuthenticationError"
        /\ sent = <<>>
        /\ Untouched

\* update() was called twice without credentials and has failed again
C1_Witness ==
    /\ ~credentials /\ ~credentials_hash
    /\ pc = "done" /\ outcome = "AuthenticationError"
    /\ calls = 2

\* the batched request of the update in progress has failed and the response
\* the fallback returned is in
FallbackReturned ==
    batch_failed /\ pc \in {"post_query", "children", "tail", "done"}

\* C2: when the batched request has failed, the response the fallback
\* returns holds exactly the keys of the request, each with the value its
\* replay returned or with the INTERNAL_QUERY_ERROR sentinel, and after the
\* merge the last-known responses hold that value for each of these keys
C2_FallbackCoversEveryKey ==
    FallbackReturned =>
        /\ DictKeys(responses) = Range(req)
        /\ \A k \in Range(req) :
              /\ responses[k] \in Answers(k, FALSE)
                                   \cup {ErrVal(INTERNAL_QUERY_ERROR)}
              /\ pc # "post_query" => last_update[k] = responses[k]

\* a failed batch of several keys has been replayed: one replay failed and
\* one was answered, and the response is merged
C2_Witness ==
    /\ batch_failed /\ pc = "tail"
    /\ \E k \in Range(req) : responses[k] = ErrVal(INTERNAL_QUERY_ERROR)
    /\ \E k \in Range(req) : responses[k].tag = "ok"
    /\ \A k \in Range(req) : last_update[k] = responses[k]

\* the hook of module m of device d was invoked n times in this cycle
Invocations(d, m) ==
    Cardinality({i \in DOMAIN hookLog :
                    hookLog[i].dev = d /\ hookLog[i].mod = m})

\* an update() has completed
UpdateDone == pc = "done" /\ outcome = "ok" /\ update_time # None

\* C3: in a cycle of a negotiated device whose batched request failed,
\* update() does not raise because of it, whichever keys ended up as
\* sentinels, and the post-update hook of every active module is invoked
C3_BatchFailureNeverRaises ==
    (batch_failed /\ components # {} /\ pc \in {"children", "tail", "done"}) =>
        /\ outcome # "KasaException"
        /\ \A m \in modules : Invocations("root", m) >= 1

\* the interval of a module
Interval(m) == Descriptor(m).MINIMUM_UPDATE_INTERVAL_SECS

\* C4: outside the bootstrap exemption, an active module with a non-empty
\* query is in the batch iff its interval is 0, or its last-update time is
\* None, or now - last_update >= interval; a module of interval T is in no
\* batch issued less than T after its last inclusion, and is in the first
\* batch issued at least T after it
C4_IntervalEligibility ==
    [][pc = "batch" =>
        \A m \in Range(QueryingModules(modules))
                    \ Bootstrapped(modules, first_update) :
            /\ m \in module_queries' <=>
                  \/ Interval(m) = 0
                  \/ modLast[m] = None
                  \/ update_time - modLast[m] >= Interval(m)
            /\ (Interval(m) > 0 /\ lastIncluded[m] # None) =>
                  (m \in module_queries' <=>
                      update_time - lastIncluded[m] >= Interval(m))]_vars

\* C5: a module whose post-update hook has raised is not in the module
\* collection of its device, in the cycle's last state and in every state
\* further calls of update() reach
C5_EvictionIsPermanent ==
    \A e \in evicted :
        IF e[1] = "root" THEN e[2] \notin modules
        ELSE e[1] \in DOMAIN children => e[2] \notin children[e[1]].modules

\* an update() has completed in which the hook of a module evicted in an
\* earlier cycle was not invoked
C5_Witness ==
    /\ UpdateDone
    /\ \E e \in evicted : Invocations(e[1], e[2]) = 0 /\ e[1] = "root"
    /\ \E e \in evicted : Invocations(e[1], e[2]) = 0 /\ e[1] # "root"

\* C6: after an update cycle, first or later, in which the hook of a module
\* raised, the feature set of the module's device holds no feature the
\* module contributes
C6_EvictedModuleHasNoFeature ==
    UpdateDone =>
        \A i \in DOMAIN hookLog :
            hookLog[i].raised =>
                ModuleFeatures(hookLog[i].mod)
                \cap (IF hookLog[i].dev = "root" THEN features
                      ELSE children[hookLog[i].dev].features) = {}

\* the sweep of device d over the modules mods, of which kept are left, has
\* invoked the hook of every module once and removed the failing ones only
Swept(d, kept) ==
    /\ \A m \in ModNames : Invocations(d, m) <= 1
    /\ \A m \in kept : Invocations(d, m) = 1
    /\ \A i \in DOMAIN hookLog :
          hookLog[i].dev = d => (hookLog[i].raised <=> hookLog[i].mod \notin kept)

\* C7: a raising post-update hook does not make update() raise and does not
\* abort the sweep: after the sweep of the device's own modules, and after
\* the sweep of its children's, every module's hook was invoked once, and
\* the modules removed are the failing ones; the call goes on and, after
\* the children's sweep, returns
C7_HookFaultIsolation ==
    /\ (pc \in {"children", "tail"} \/ UpdateDone) => Swept("root", modules)
    /\ UpdateDone =>
          \A c \in DOMAIN children : Swept(c, children[c].modules)
    /\ (pc = "done" /\ \E i \in DOMAIN hookLog : hookLog[i].raised) =>
          /\ outcome \in {"ok", "QueryError", "KeyError"}
          /\ (\E i \in DOMAIN hookLog : hookLog[i].dev # "root")
                => outcome = "ok"

\* an update() has completed in which a hook of the device raised and a
\* later one was still invoked, and a hook of a child raised
C7_Witness ==
    /\ UpdateDone
    /\ \E i, j \in DOMAIN hookLog :
          /\ i < j
          /\ hookLog[i].dev = "root" /\ hookLog[i].raised
          /\ hookLog[j].dev = "root" /\ ~hookLog[j].raised
    /\ \E i \in DOMAIN hookLog : hookLog[i].dev # "root" /\ hookLog[i].raised

\* no update() has completed yet
FirstUpdateUnfinished ==
    \/ calls = 0
    \/ components = {}
    \/ calls = 1 /\ pc # "idle" /\ ~UpdateDone

\* the features of a device whose features are initialised, given its info
FeaturesByKeyPresence(f, i) ==
    f # {} =>
        /\ "device_id" \in f
        /\ "on_since" \in f <=> i.on_time # Absent

\* C8: the feature set of a device, and of each of its children, is empty
\* until the first update() has reached feature initialisation; once
\* initialised it holds device_id, and it holds on_since iff the info holds
\* the key on_time, whatever its value
C8_FeaturesAfterFirstUpdate ==
    /\ FirstUpdateUnfinished =>
          /\ features = {}
          /\ \A c \in DOMAIN children : children[c].features = {}
    /\ FeaturesByKeyPresence(features, info)
    /\ \A c \in DOMAIN children :
          FeaturesByKeyPresence(children[c].features, children[c].info)

\* the features of a device that reports on_time = 0 are initialised, and
\* those of a child of it
C8_Witness ==
    /\ UpdateDone
    /\ info.on_time = 0 /\ "on_since" \in features
    /\ \E c \in DOMAIN children :
          children[c].info.on_time = 0 /\ "on_since" \in children[c].features

\* the requests of the kind given that the operation in progress has issued
Issued(method) == {i \in DOMAIN sent : sent[i].keys = <<method>>}

\* a call of pair() has ended
PairDone ==
    pc = "done" /\ Issued("begin_scanning_child_device") # {}

\* what C9 says of a call of pair() that has ended
PairOutcome ==
    IF discovered # <<>>
    THEN /\ Cardinality(Issued("add_child_device_list")) = 1
         /\ \A i \in Issued("add_child_device_list") :
               sent[i].ids = Range(discovered)
         /\ outcome = "ok" /\ result = OkVal(1)
    ELSE /\ Issued("add_child_device_list") = {}
         /\ outcome = "ok" /\ result = AbsentVal

C10_UnpairScopedChildMapUntouched ==
    [][/\ \A id \in ChildIds, ok \in BOOLEAN :
             Unpair(id, ok) =>
                /\ sent' = <<Request(<<"remove_child_device_list">>, {id})>>
                /\ children' = children
       /\ \A ok \in BOOLEAN : AddDevices(ok) => children' = children]_vars

\* unpair("c1") has returned: the device has removed the child, and the
\* child map still holds it
C10_Witness ==
    /\ pc = "done" /\ outcome = "ok"
    /\ sent = <<Request(<<"remove_child_device_list">>, {"c1"})>>
    /\ "c1" \notin devChildren
    /\ "c1" \in DOMAIN children

\* C11: when an update() that negotiates has completed, after a successful
\* unpair() or a successful add of discovered devices as after nothing, the
\* ids of the child map are the ids of the children the device reports
C11_RenegotiationRebuildsChildMap ==
    (UpdateDone /\ first_update) => DOMAIN children = devChildren

\* the ten rules of the classifier, in order: whether the rule matches, and
\* the category it yields
ClassifierTable(capabilityIds, deviceTypeTag) ==
    << [matches |-> Contains(HUB, deviceTypeTag), category |-> "Hub"],
       [matches |-> Contains(PLUG, deviceTypeTag),
        category |-> IF "child_device" \in capabilityIds THEN "Strip"
                     ELSE "Plug"],
       [matches |-> "light_strip" \in capabilityIds,
        category |-> "LightStrip"],
       [matches |-> Contains(SWITCH, deviceTypeTag)
                       /\ "child_device" \in capabilityIds,
        category |-> "WallSwitch"],
       [matches |-> "dimmer_calibration" \in capabilityIds,
        category |-> "Dimmer"],
       [matches |-> "brightness" \in capabilityIds, category |-> "Bulb"],
       [matches |-> Contains(SWITCH, deviceTypeTag),
        category |-> "WallSwitch"],
       [matches |-> Contains(SENSOR, deviceTypeTag), category |-> "Sensor"],
       [matches |-> Contains(ENERGY, deviceTypeTag),
        category |-> "Thermostat"],
       [matches |-> TRUE, category |-> "Plug"] >>

\* the category of the first rule of a table that matches
FirstMatch(table) ==
    table[CHOOSE i \in 1..Len(table) :
             table[i].matches /\ \A j \in 1..(i - 1) : ~table[j].matches
         ].category

\* C12: the device type a device has classified is the category of the first
\* matching rule of the ten-rule table, for every set of components and
\* every type tag
C12_ClassifierEqualsTable ==
    device_type # "Unknown"
        => device_type = FirstMatch(ClassifierTable(components, info.type))

\* a SWITCH tag with brightness and without child_device: rule 6 wins over
\* rule 7
C12_Witness ==
    /\ device_type = "Bulb"
    /\ Contains(SWITCH, info.type)
    /\ "brightness" \in components
    /\ "child_device" \notin components

\* C13: a read of on_since returns none when device_on is false or absent
\* or on_time is absent; otherwise, also when on_time is 0, it returns the
\* device time minus on_time
C13_OnSince ==
    [][OnSinceGet =>
          /\ (info.device_on \in {Absent, 0} \/ info.on_time = Absent)
                => result' = AbsentVal
          /\ (info.device_on = 1 /\ info.on_time # Absent)
                => result' = OkVal(clock - info.on_time)]_vars

\* on_since of a device that is on with on_time 0 is the device time
C13_Witness ==
    /\ pc = "done"
    /\ info.device_on = 1
    /\ info.on_time = 0
    /\ result = OkVal(clock)

\* C20: a loading pass keeps a registered module if and only if (a) the
\* device is not under a non-Hub parent with the module being root-only,
\* (b) the required component is reported or the info has a value for the
\* module's alternate key, and (c) the module's probe succeeds
C20_ModuleLoadingDecision ==
    [][\A p \in ParentTypes, u \in ProbeFailures :
          InitializeModulesUnder(p, u) =>
             \A d \in Range(REGISTERED_MODULES) :
                d.name \in modules' <=>
                   /\ ~(p \notin {"None", "Hub"}
                        /\ d.name \in NON_HUB_PARENT_ONLY_MODULES)
                   /\ \/ d.REQUIRED_COMPONENT \in components
                      \/ InfoGet(info, d.REQUIRED_KEY_ON_PARENT) # Absent
                   /\ d.name \notin u]_vars

\* a module kept for its alternate key alone, and a root-only module kept
\* on a device that reports its component
C20_Witness ==
    /\ pc = "done"
    /\ "Brightness" \in modules
    /\ "brightness" \notin components
    /\ info.brightness # Absent
    /\ "Firmware" \in modules

\* a request of a child's update
IsChildRequest(q) == q.ids # {}

\* C14: when update() has passed the children's update, the requests of the
\* children's module updates have been issued, one per child, if
\* update_children was set or the device is not a Hub, and none of them
\* otherwise
C14_ChildrenUpdatedIff ==
    (pc = "tail" /\ update_time # None) =>
        SelectSeq(sent, IsChildRequest) =
            IF update_children \/ Classify(components, info.type) # "Hub"
            THEN ChildRequests(SortedIds(DOMAIN children), children)
            ELSE <<>>

\* a hub asked to update its children has queried them
C14_Witness ==
    /\ pc = "tail"
    /\ update_children
    /\ Classify(components, info.type) = "Hub"
    /\ DOMAIN children # {}
    /\ SelectSeq(sent, IsChildRequest) # <<>>

\* an update() is in progress or has just ended
InUpdate == update_time # None

\* the requests of negotiation: the initial query, then the child info
\* query if the components negotiated hold child_device
NegotiationRequests ==
    <<Request(InitialQuery, {})>>
    \o (IF "child_device" \in components
        THEN <<Request(ChildInfoQuery, {})>> ELSE <<>>)

IsNegotiationRequest(q) == q.keys \in {InitialQuery, ChildInfoQuery}

BootstrapModules == modules \cap FIRST_UPDATE_MODULES

\* C16: once the batch of the first update cycle is built, no active
\* bootstrap module is among the modules queried, none of its keys is in
\* the batch, and its last-update time is the cycle's now; in a later cycle
\* an active bootstrap module is queried exactly when the interval
\* predicate holds of it
C16_BootstrapExemption ==
    /\ (InUpdate /\ first_update
           /\ pc \in {"fallback", "post_query", "children", "tail"})
          => \A m \in BootstrapModules :
                /\ m \notin module_queries
                /\ Range(Descriptor(m).query) \cap Range(req) = {}
                /\ modLast[m] = update_time
    /\ (InUpdate /\ ~first_update /\ pc \in {"fallback", "post_query"})
          => \A m \in BootstrapModules :
                m \in module_queries
                   <=> Due(Descriptor(m).MINIMUM_UPDATE_INTERVAL_SECS,
                           modLast[m], update_time)

\* a first cycle whose batch went out without the bootstrap modules
C16_Witness ==
    /\ pc = "post_query"
    /\ first_update
    /\ {"DeviceModule", "ChildDevice"} \subseteq modules
    /\ module_queries # {}
    /\ req # <<>>
    /\ modLast["DeviceModule"] = update_time
    /\ modLast["ChildDevice"] = update_time

\* C17: the now of a cycle is the time update() stored at its start, and
\* every module with a query that is not exempt is in the batch exactly when
\* the interval predicate holds of its last-update time and that now; from
\* the batch on, a last-update time changes only to that now, and only of a
\* module in the batch or exempt as a bootstrap module, so that a module
\* left out by its interval keeps its time; when the cycle has completed
\* successfully every module of the batch has that now as last-update time
C17_TimestampWriteBack ==
    [][/\ pc = "batch" =>
             /\ update_time = last_update_time
             /\ \A m \in modules :
                   (/\ Descriptor(m).query # <<>>
                    /\ ~(first_update /\ m \in FIRST_UPDATE_MODULES))
                   => (m \in module_queries' <=>
                         \/ Descriptor(m).MINIMUM_UPDATE_INTERVAL_SECS = 0
                         \/ modLast[m] = None
                         \/ update_time - modLast[m]
                               >= Descriptor(m).MINIMUM_UPDATE_INTERVAL_SECS)
       /\ pc \in {"batch", "fallback", "post_query", "children", "tail"} =>
             \A m \in ModNames :
                modLast'[m] # modLast[m] =>
                   /\ modLast'[m] = update_time
                   /\ \/ m \in module_queries'
                      \/ first_update /\ m \in FIRST_UPDATE_MODULES
       /\ UpdateDone' =>
             \A m \in module_queries' : modLast'[m] = update_time'
      ]_vars

\* a later cycle has completed: the cloud module was left out by its
\* interval and keeps an earlier time, the modules of the batch have now
C17_Witness ==
    /\ UpdateDone
    /\ ~first_update
    /\ "Cloud" \in modules \ module_queries
    /\ modLast["Cloud"] # None
    /\ modLast["Cloud"] # update_time
    /\ module_queries # {}
    /\ \A m \in module_queries : modLast[m] = update_time

\* a request of the device's own module update: neither a negotiation
\* request nor a request of a child
IsOwnRequest(q) == ~IsNegotiationRequest(q) /\ ~IsChildRequest(q)

OwnRequests == SelectSeq(sent, IsOwnRequest)

\* the batch, followed by the single-key requests of its first n keys
BatchThenReplays(n) ==
    <<Request(req, {})>> \o [i \in 1..n |-> Request(<<req[i]>>, {})]

\* C18: in an update cycle the device issues no request of its own before
\* the batch; then the batch once; then, only if the batch raised, one
\* single-key request per key of the batch, one after the other in the order
\* of the keys, and nothing else
C18_RequestSequencing ==
    InUpdate =>
       /\ pc \in {"negotiate", "init_children", "init_modules", "batch"}
             => OwnRequests = <<>>
       /\ pc = "fallback"
             => batch_failed /\ OwnRequests = BatchThenReplays(idx - 1)
       /\ pc \in {"post_query", "children", "tail"}
             => OwnRequests = BatchThenReplays(IF batch_failed THEN Len(req)
                                              ELSE 0)
       /\ pc = "done"
             => \/ outcome # "ok" /\ OwnRequests = <<>>
                \/ OwnRequests = BatchThenReplays(IF batch_failed
                                                  THEN Len(req) ELSE 0)

\* a batch of several keys has raised and every key has been replayed
C18_Witness ==
    /\ InUpdate
    /\ pc = "post_query"
    /\ batch_failed
    /\ Len(req) >= 2
    /\ OwnRequests = BatchThenReplays(Len(req))

\* the last-known responses after, given those before and a response
\* merged: each key of the response holds the response's value, whole, and
\* every other key holds what it held
MergedWholesale(before, response, after) ==
    \A k \in Keys :
       after[k] = IF response[k].tag # "absent" THEN response[k]
                  ELSE before[k]

\* C19: the merge of a cycle's response, and of the negotiation response,
\* into the last-known responses replaces the value of every key of the
\* response by the response's value and leaves every other key as it was;
\* no step ever removes a key from the last-known responses
C19_MergeWholesale ==
    [][/\ pc = "post_query"
             => MergedWholesale(last_update, responses, last_update')
       /\ \A r \in Replies(Range(InitialQuery), TRUE) :
             (Negotiate(r) /\ ~r.raised)
                => MergedWholesale(last_update, r.resp, last_update')
       /\ DictKeys(last_update) \subseteq DictKeys(last_update')
      ]_vars

\* a later cycle has merged its response: the keys of the response hold its
\* values, the child list among them, and the negotiation key is still held
C19_Witness ==
    /\ InUpdate
    /\ ~first_update
    /\ pc \in {"children", "tail"}
    /\ responses["get_child_device_list"].tag = "ok"
    /\ \A k \in DictKeys(responses) : last_update[k] = responses[k]
    /\ responses["component_nego"].tag = "absent"
    /\ last_update["component_nego"].tag = "ok"

\* C21: the child info query is about to be issued only on a device that
\* has negotiated child_device and holds no child; once a negotiation is
\* past that point, the query is among the requests issued only if the
\* children held were built by it
C21_ChildrenInitialisedOnce ==
    /\ pc = "init_children"
          => "child_device" \in components /\ DOMAIN children = {}
    /\ (InUpdate /\ pc = "init_modules"
           /\ \E i \in 1..Len(sent) : sent[i] = Request(ChildInfoQuery, {}))
          => /\ "child_device" \in components
             /\ \A c \in DOMAIN children :
                   children[c] = CreateChild(children[c].info, device_type)

\* a device holding a child negotiates again and goes on to load its
\* modules without the child info query
C21_Witness ==
    /\ pc = "init_modules"
    /\ first_update
    /\ "child_device" \in components
    /\ DOMAIN children # {}
    /\ sent = <<Request(InitialQuery, {})>>

\* C22: the step of an update cycle that follows the children's module
\* updates, or their omission, leaves every child listed in the last-known
\* child list with the info record listed for its id, and every child that
\* is not listed with the info it had
C22_ChildInfoPush ==
    [][pc = "tail" =>
          LET l == ChildInfoList(last_update)
          IN /\ \A i \in 1..Len(l) :
                   /\ l[i].device_id \in DOMAIN children'
                   /\ children'[l[i].device_id].info = l[i].info
             /\ \A c \in DOMAIN children :
                   (\A i \in 1..Len(l) : l[i].device_id # c)
                      => /\ c \in DOMAIN children'
                         /\ children'[c].info = children[c].info]_vars

\* a poll is issued by the step
PollIssued == Len(sent') = Len(sent) + 1
                 /\ sent'[Len(sent')].keys = <<"get_scan_child_device_list">>

\* C23: the requests of a call of pair() begin with begin-scanning; a poll is
\* issued only after a sleep of one tick (0.5 s) that ended at or before the
\* deadline, it is scoped to the supported device categories, and none is
\* issued once a poll has returned devices; and a call of pair() that has
\* been made eventually ends
C23_ScanBoundedOrdered ==
    /\ [](((pc \in {"pair_sleep", "pair_poll", "pair_add"}) \/ PairDone)
             => sent[1] = Request(<<"begin_scanning_child_device">>, {}))
    /\ [](pc = "pair_poll" => elapsed <= timeout)
    /\ [][pc' = "pair_poll" => pc = "pair_sleep" /\ elapsed' = elapsed + 1]_vars
    /\ [][PollIssued =>
            /\ pc = "pair_poll" /\ discovered = <<>>
            /\ sent'[Len(sent')].ids = SupportedDeviceCategories
            /\ (discovered' # <<>> => pc' = "pair_add")]_vars
    /\ (pc = "pair_begin" ~> pc = "done")

\* pair(timeout=1 s) has returned None at the deadline after two polls that
\* found nothing
C23_Witness ==
    /\ PairDone /\ outcome = "ok" /\ result = AbsentVal
    /\ timeout = 2 /\ elapsed = 2 /\ discovered = <<>>
    /\ Cardinality(Issued("get_scan_child_device_list")) = 2

\* C24: whenever no call is in progress and the device has a time of last
\* update, a negotiation has completed for it: it holds components and an
\* info record
C24_NegotiationRecordedOnSuccess ==
    (pc = "idle" /\ last_update_time # None)
        => components # {} /\ info # NoInfo

\* the initial states of SpecPaired are states of Spec: the hub reaches
\* them by its first call
ReachedNegotiatedHub == NegotiatedHub(1)

\* and they are all the states in which the hub is when its first call, an
\* update() at time 1 without a fault, has returned
OnlyNegotiatedHub ==
    (pc = "idle" /\ calls = 1 /\ tag = HUB /\ faults = 0 /\ clock = 1
       /\ features # {})
       => NegotiatedHub(1)

\* the calls in progress, running or suspended, that are first updates
FirstFrames ==
    (IF first_update THEN 1 ELSE 0) + (IF suspended.first_update THEN 1 ELSE 0)

\* the initial queries among the requests s
InitialQueries(s) ==
    Cardinality({i \in DOMAIN s : s[i] = Request(InitialQuery, {})})

\* where a call negotiates and loads the modules
LoadingPositions == {"negotiate", "init_children", "init_modules"}

\* C25: of two calls of update() interleaved at their awaits at most one is
\* a first update, and only a first update negotiates and loads modules; the
\* two calls together issue the initial query at most once; a call becomes a
\* first update only on a device without a timestamp, which it sets in the
\* same step and which update() never clears; and the module map gains
\* members only in the loading step of the first update, from empty
C25_NegotiatesAndLoadsOnce ==
    /\ [](FirstFrames <= 1)
    /\ [](InitialQueries(sent) + InitialQueries(suspended.sent) <= 1)
    /\ []((pc \in LoadingPositions => first_update)
           /\ (suspended.pc \in LoadingPositions => suspended.first_update)
           /\ (InitialQueries(sent) > 0 => first_update)
           /\ (InitialQueries(suspended.sent) > 0 => suspended.first_update))
    /\ [][FirstFrames' > FirstFrames
              => last_update_time = None /\ last_update_time' # None]_vars
    /\ [][last_update_time # None => last_update_time' # None]_vars
    /\ [][~(modules' \subseteq modules)
              => modules = {} /\ pc = "init_modules" /\ first_update]_vars

\* the first call has negotiated and is about to load the modules while a
\* second call, not a first update, has had its batch answered
C25_Witness ==
    /\ suspended.first_update /\ suspended.pc = "init_modules"
    /\ suspended.sent # <<>> /\ suspended.sent[1] = Request(InitialQuery, {})
    /\ ~first_update /\ pc = "post_query" /\ sent # <<>>

\* C26: whenever no call is in progress, every device id of the child list
\* held in the last-known responses is a key of the child map, and no
\* update() has ended with the info push failing on a listed child
C26_ChildListConsistent ==
    /\ pc = "idle"
          => \A i \in 1..Len(ChildInfoList(last_update)) :
                ChildInfoList(last_update)[i].device_id \in DOMAIN children
    /\ outcome # "KeyError"

====
